---- MODULE Spec2Model ----
(***************************************************************************)
(* PageRank (src/pagerank.py): transition_model, sample_pagerank and       *)
(* iterate_pagerank as state machines over bounded link graphs.            *)
(*                                                                         *)
(* Python floats are IEEE-754 binary64 and the test suite compares them    *)
(* with ==, so arithmetic is modelled bit-exactly.  A float is the record  *)
(* [m, e] standing for m * 2^e with 2^52 <= m < 2^53 (or m = 0, e = 0);    *)
(* m is a tuple of Limbs limbs of LimbBits bits, least significant first.  *)
(* Every value the three functions compute for a damping factor in [0, 1]  *)
(* is non-negative and far from overflow and underflow, so neither a sign  *)
(* nor subnormals are carried.                                             *)
(***************************************************************************)
EXTENDS Integers, Sequences, FiniteSets

LimbBits == 14
LimbBase == 2^14
Limbs == 8

Pow2(k) == 2^k

BigZero == <<0, 0, 0, 0, 0, 0, 0, 0>>

BigOfInt(k) == <<k % LimbBase, (k \div LimbBase) % LimbBase,
                 k \div (LimbBase * LimbBase), 0, 0, 0, 0, 0>>

BigIsZero(a) == a = BigZero

RECURSIVE SmallBitLen(_)
SmallBitLen(v) == IF v = 0 THEN 0 ELSE 1 + SmallBitLen(v \div 2)

RECURSIVE TopLimb(_, _)
TopLimb(a, i) == IF i = 0 \/ a[i] # 0 THEN i ELSE TopLimb(a, i - 1)

BigBitLen(a) == LET t == TopLimb(a, Limbs)
                IN IF t = 0 THEN 0 ELSE (t - 1) * LimbBits + SmallBitLen(a[t])

(* bit i (from 0) of a *)
BigBit(a, i) == IF i < 0 \/ i >= Limbs * LimbBits THEN 0
                ELSE (a[i \div LimbBits + 1] \div Pow2(i % LimbBits)) % 2

(* whether a mod 2^t is non-zero *)
BigLowNonZero(a, t) ==
    IF t <= 0 THEN FALSE
    ELSE \/ \E j \in 1..Limbs : j <= t \div LimbBits /\ a[j] # 0
         \/ /\ t \div LimbBits < Limbs
            /\ a[t \div LimbBits + 1] % Pow2(t % LimbBits) # 0

Limb(a, i) == IF i >= 1 /\ i <= Limbs THEN a[i] ELSE 0

BigShr(a, s) ==
    LET q == s \div LimbBits
        r == s % LimbBits
        p == Pow2(r)
        c == Pow2(LimbBits - r)
        f(i) == (Limb(a, i + q) \div p) + (Limb(a, i + q + 1) % p) * c
    IN <<f(1), f(2), f(3), f(4), f(5), f(6), f(7), f(8)>>

BigShl(a, s) ==
    LET q == s \div LimbBits
        r == s % LimbBits
        p == Pow2(r)
        c == Pow2(LimbBits - r)
        f(i) == (Limb(a, i - q) % c) * p + (Limb(a, i - q - 1) \div c)
    IN <<f(1), f(2), f(3), f(4), f(5), f(6), f(7), f(8)>>

RECURSIVE AddLimbs(_, _, _, _)
AddLimbs(a, b, i, c) ==
    IF i > Limbs THEN <<>>
    ELSE LET t == a[i] + b[i] + c
         IN <<t % LimbBase>> \o AddLimbs(a, b, i + 1, t \div LimbBase)

BigAdd(a, b) == AddLimbs(a, b, 1, 0)

RECURSIVE SubLimbs(_, _, _, _)
SubLimbs(a, b, i, c) ==
    IF i > Limbs THEN <<>>
    ELSE LET t == a[i] - b[i] - c
         IN <<(t + LimbBase) % LimbBase>> \o SubLimbs(a, b, i + 1, IF t < 0 THEN 1 ELSE 0)

(* a - b for a >= b *)
BigSub(a, b) == SubLimbs(a, b, 1, 0)

RECURSIVE LessFrom(_, _, _)
LessFrom(a, b, i) == IF i = 0 THEN FALSE
                     ELSE IF a[i] # b[i] THEN a[i] < b[i]
                     ELSE LessFrom(a, b, i - 1)

BigLess(a, b) == LessFrom(a, b, Limbs)

(* column k (from 1) of the product of two four-limb numbers *)
MulCol(a, b, k) ==
      (IF k >= 1 /\ k <= 4 THEN a[1] * b[k] ELSE 0)
    + (IF k >= 2 /\ k <= 5 THEN a[2] * b[k - 1] ELSE 0)
    + (IF k >= 3 /\ k <= 6 THEN a[3] * b[k - 2] ELSE 0)
    + (IF k >= 4 /\ k <= 7 THEN a[4] * b[k - 3] ELSE 0)

RECURSIVE MulLimbs(_, _, _, _)
MulLimbs(a, b, k, c) ==
    IF k > Limbs THEN <<>>
    ELSE LET t == MulCol(a, b, k) + c
         IN <<t % LimbBase>> \o MulLimbs(a, b, k + 1, t \div LimbBase)

(* a * b for a, b < 2^56 *)
BigMul(a, b) == MulLimbs(a, b, 1, 0)

RECURSIVE DivLimbs(_, _, _, _, _)
DivLimbs(a, k, i, r, acc) ==
    IF i = 0 THEN [q |-> acc, rem |-> r]
    ELSE LET t == r * LimbBase + a[i]
         IN DivLimbs(a, k, i - 1, t % k, <<t \div k>> \o acc)

(* floor(a / k) and a mod k for 0 < k < 2^16 *)
BigDivSmall(a, k) == DivLimbs(a, k, Limbs, 0, <<>>)

FZero == [m |-> BigZero, e |-> 0]

(* round-half-even of big * 2^e (plus a non-zero tail below it when sticky) *)
Round(big, e, sticky) ==
    LET L == BigBitLen(big) IN
    IF L = 0 THEN FZero
    ELSE IF L <= 53 THEN [m |-> BigShl(big, 53 - L), e |-> e - (53 - L)]
    ELSE LET s    == L - 53
             kept == BigShr(big, s)
             g    == BigBit(big, s - 1)
             rest == BigLowNonZero(big, s - 1) \/ sticky
             up   == g = 1 /\ (rest \/ kept[1] % 2 = 1)
             k1   == IF up THEN BigAdd(kept, BigOfInt(1)) ELSE kept
         IN IF BigBitLen(k1) = 54 THEN [m |-> BigShr(k1, 1), e |-> e + s + 1]
            ELSE [m |-> k1, e |-> e + s]

FOfInt(k) == Round(BigOfInt(k), 0, FALSE)

FIsZero(x) == BigIsZero(x.m)

FLess(x, y) ==
    IF FIsZero(y) THEN FALSE
    ELSE IF FIsZero(x) THEN TRUE
    ELSE x.e < y.e \/ (x.e = y.e /\ BigLess(x.m, y.m))

(* x / k for an int 0 < k < 2^16 *)
FDivInt(x, k) ==
    LET d == BigDivSmall(BigShl(x.m, 20), k)
    IN Round(d.q, x.e - 20, d.rem # 0)

Aligned(x, y) ==
    LET sh == x.e - y.e IN
    IF sh > 56 THEN [a |-> BigShl(x.m, 3), b |-> BigZero, e |-> x.e - 3, sticky |-> ~FIsZero(y)]
    ELSE [a |-> BigShl(x.m, sh), b |-> y.m, e |-> y.e, sticky |-> FALSE]

FAddOrd(x, y) ==
    LET al == Aligned(x, y) IN Round(BigAdd(al.a, al.b), al.e, al.sticky)

FAdd(x, y) ==
    IF FIsZero(x) THEN y
    ELSE IF FIsZero(y) THEN x
    ELSE IF x.e >= y.e THEN FAddOrd(x, y) ELSE FAddOrd(y, x)

(* x - y for x >= y >= 0 *)
FSub(x, y) ==
    IF FIsZero(y) THEN x
    ELSE LET al == Aligned(x, y) IN
         IF al.sticky
         THEN Round(BigSub(BigShl(al.a, 1), BigOfInt(1)), al.e - 1, TRUE)
         ELSE Round(BigSub(al.a, al.b), al.e, FALSE)

FAbsDiff(x, y) == IF FLess(x, y) THEN FSub(y, x) ELSE FSub(x, y)

FMul(x, y) ==
    IF FIsZero(x) \/ FIsZero(y) THEN FZero
    ELSE Round(BigMul(x.m, y.m), x.e + y.e, FALSE)


FOne == FOfInt(1)

(* the float a decimal literal num/den denotes (correctly rounded) *)
FLit(num, den) == FDivInt(FOfInt(num), den)

(* Python's true division int / int, correctly rounded *)
IntDiv(a, b) == FDivInt(FOfInt(a), b)

---------------------------------------------------------------------------
(* Bounds of the model. *)
MaxPages == 3
MaxEdges == 4
MaxSamplePages == 2
WidePages == 4
MaxSamples == 3
MaxRounds == 80

(* DAMPING = 0.85 *)
DAMPING == FLit(85, 100)

None == "None"

(* A corpus, as crawl returns it: a dict from each page to the set of the  *)
(* OTHER pages of the corpus it links to.  Pages are 1..N in the dict's    *)
(* iteration order.  Corpora(maxPages, maxEdges) holds the corpora of at   *)
(* most maxPages pages and maxEdges links whose pages are listed by        *)
(* non-increasing number of links (every corpus is one of these up to the  *)
(* order of its keys).                                                     *)
RECURSIVE LinkRows(_, _, _, _)
LinkRows(N, p, budget, maxdeg) ==
    IF p > N THEN {<<>>}
    ELSE UNION { { <<S>> \o rest : rest \in LinkRows(N, p + 1, budget - Cardinality(S), Cardinality(S)) }
                 : S \in { T \in SUBSET ((1..N) \ {p}) :
                             Cardinality(T) <= budget /\ Cardinality(T) <= maxdeg } }

Corpora(maxPages, maxEdges) ==
    UNION { LinkRows(N, 1, maxEdges, N) : N \in 0..maxPages }

(* corpus_ex of test_transition_model *)
corpus_ex == <<{2, 3}, {3}, {2}>>

Pages(corp) == 1..Len(corp)

VARIABLES
    pc,               \* where the running call stands
    corpus,           \* argument corpus
    damping_factor,   \* argument damping_factor
    page,             \* transition_model: argument page
    n,                \* sample_pagerank: argument n
    sample,           \* sample_pagerank: the list sample
    choice,           \* sample_pagerank: the page last drawn
    tm_calls,         \* sample_pagerank: evaluations of transition_model so far
    heap,             \* iterate_pagerank: the dict objects, by identity
    old_pagerank,     \* iterate_pagerank: the object old_pagerank names
    new_pagerank,     \* iterate_pagerank: the object new_pagerank names
    random_factor,    \* iterate_pagerank: random_factor
    cursor,           \* iterate_pagerank: the page the for loop stands at
    rounds,           \* iterate_pagerank: rounds of the while loop completed
    result,           \* the dict returned, None until the call returns
    error             \* the exception raised, None if none

vars == <<pc, corpus, damping_factor, page, n, sample, choice, tm_calls, heap,
          old_pagerank, new_pagerank, random_factor, cursor, rounds, result, error>>

sampleVars == <<n, sample, choice, tm_calls>>
iterVars == <<heap, old_pagerank, new_pagerank, random_factor, cursor, rounds>>

---------------------------------------------------------------------------
(* transition_model(corpus, page, damping_factor), lines 70-84 *)
transition_model(corp, pg, d) ==
    LET rf == FDivInt(FSub(FOne, d), Len(corp))
    IN [web \in Pages(corp) |->
          IF web \in corp[pg]
          THEN FAdd(rf, FDivInt(d, Cardinality(corp[pg])))
          ELSE rf]

NoSample == /\ n = 0 /\ sample = <<>> /\ choice = 0 /\ tm_calls = 0
NoIter == /\ heap = <<>> /\ old_pagerank = 0 /\ new_pagerank = 0
          /\ random_factor = None /\ cursor = 0 /\ rounds = 0

TMDampings == {FZero, FLit(1, 2), DAMPING, FOne}

InitTM ==
    /\ pc = "transition_model"
    /\ corpus \in Corpora(MaxPages, MaxEdges) \ {<<>>}
    /\ page \in Pages(corpus)
    /\ damping_factor \in TMDampings
    /\ NoSample /\ NoIter
    /\ result = None /\ error = None

TMCall ==
    /\ pc = "transition_model"
    /\ result' = transition_model(corpus, page, damping_factor)
    /\ pc' = "done"
    /\ UNCHANGED <<corpus, damping_factor, page, error>>
    /\ UNCHANGED sampleVars /\ UNCHANGED iterVars

NextTM == TMCall

SpecTM == InitTM /\ [][NextTM]_vars

---------------------------------------------------------------------------
(* sample_pagerank(corpus, damping_factor, n), lines 107-148 *)

(* list(accumulate(weights))[i - 1], as random.choices builds it *)
RECURSIVE CumWeight(_, _)
CumWeight(weights, i) ==
    IF i = 0 THEN FZero ELSE FAdd(CumWeight(weights, i - 1), weights[i])

(* the options random.choices(options, weights) can return: those whose    *)
(* cumulative weight lies above the one before                             *)
Choices(weights) ==
    { i \in DOMAIN weights : FLess(CumWeight(weights, i - 1), CumWeight(weights, i)) }

(* sample.count(p) *)
RECURSIVE Count(_, _)
Count(seq, p) ==
    IF seq = <<>> THEN 0
    ELSE (IF Head(seq) = p THEN 1 ELSE 0) + Count(Tail(seq), p)

(* a tally divided by len(corpus) in place of len(sample) *)
NormalisedByPages(corp, smp) ==
    [key \in Pages(corp) |-> IntDiv(Count(smp, key), Len(corp))]

(* lines 137-148: tally the sample, divide every count by len(sample) *)
Normalised(corp, smp) == [key \in Pages(corp) |-> IntDiv(Count(smp, key), Len(smp))]

(* range(n) in place of range(n - 1) *)
MoreSamplesOffByOne(k, count) == k < count

(* line 121: whether range(n - 1) has a pass left after k passes *)
MoreSamples(k, count) == k < count - 1

SampleDampings == {FZero, FLit(1, 2), DAMPING, FOne}

InitSample ==
    /\ pc = "sample_pagerank"
    /\ corpus \in Corpora(MaxSamplePages, MaxEdges)
    /\ damping_factor \in SampleDampings
    /\ n \in -1..MaxSamples
    /\ sample = <<>> /\ choice = 0 /\ tm_calls = 0
    /\ page = 0
    /\ NoIter
    /\ result = None /\ error = None

(* lines 107-118 on an empty corpus: random.choice([]) raises IndexError *)
SampleFirstEmpty ==
    /\ pc = "sample_pagerank"
    /\ Len(corpus) = 0
    /\ error' = "IndexError"
    /\ pc' = "raised"
    /\ UNCHANGED <<corpus, damping_factor, page, result>>
    /\ UNCHANGED sampleVars /\ UNCHANGED iterVars

(* a sample_pagerank that would refuse n < 1 before drawing a page *)
SampleFirstChecked ==
    /\ pc = "sample_pagerank"
    /\ Len(corpus) >= 1
    /\ IF n < 1
       THEN /\ error' = "ValueError"
            /\ pc' = "raised"
            /\ UNCHANGED <<sample, choice>>
       ELSE /\ \E c \in Pages(corpus) :
                  /\ choice' = c
                  /\ sample' = <<c>>
            /\ pc' = IF n > 1 THEN "sampling" ELSE "tally"
            /\ error' = error
    /\ UNCHANGED <<corpus, damping_factor, page, n, tm_calls, result>>
    /\ UNCHANGED iterVars

(* lines 107-120: the first sample is a page chosen at random *)
SampleFirst ==
    /\ pc = "sample_pagerank"
    /\ \E c \in Pages(corpus) :
          /\ choice' = c
          /\ sample' = <<c>>
    /\ pc' = IF n > 1 /\ MoreSamples(0, n) THEN "sampling" ELSE "tally"
    /\ UNCHANGED <<corpus, damping_factor, page, n, tm_calls, result, error>>
    /\ UNCHANGED iterVars

(* lines 121-135, one pass of the loop *)
SampleStep ==
    /\ pc = "sampling"
    /\ LET model == transition_model(corpus, choice, damping_factor)
       IN /\ Choices(model) # {}
          /\ \E c \in Choices(model) :
                /\ choice' = c
                /\ sample' = Append(sample, c)
    /\ tm_calls' = tm_calls + 1
    /\ pc' = IF MoreSamples(Len(sample') - 1, n) THEN "sampling" ELSE "tally"
    /\ UNCHANGED <<corpus, damping_factor, page, n, result, error>>
    /\ UNCHANGED iterVars

(* line 132 when every weight is zero: random.choices raises ValueError *)
SampleStepNoWeight ==
    /\ pc = "sampling"
    /\ Choices(transition_model(corpus, choice, damping_factor)) = {}
    /\ tm_calls' = tm_calls + 1
    /\ error' = "ValueError"
    /\ pc' = "raised"
    /\ UNCHANGED <<corpus, damping_factor, page, n, sample, choice, result>>
    /\ UNCHANGED iterVars

(* lines 137-148 *)
SampleReturn ==
    /\ pc = "tally"
    /\ result' = Normalised(corpus, sample)
    /\ pc' = "done"
    /\ UNCHANGED <<corpus, damping_factor, page, error>>
    /\ UNCHANGED sampleVars /\ UNCHANGED iterVars

NextSample ==
    \/ SampleFirstEmpty
    \/ SampleFirst
    \/ SampleStep
    \/ SampleStepNoWeight
    \/ SampleReturn

SpecSample == InitSample /\ [][NextSample]_vars

---------------------------------------------------------------------------
(* iterate_pagerank(corpus, damping_factor), lines 170-212.  The two dicts *)
(* are objects: old_pagerank and new_pagerank hold identities, heap the    *)
(* dict each identity stands for (None for an identity not in use).        *)

ObjIds == {1, 2, 3}

(* lines 184-193: addition after the inner loop has passed webs 1..web *)
RECURSIVE Addition(_, _, _, _)
Addition(corp, old, pg, web) ==
    IF web = 0 THEN FZero
    ELSE LET before == Addition(corp, old, pg, web - 1)
             linked == IF pg \in corp[web]
                       THEN FAdd(before, FDivInt(old[web], Cardinality(corp[web])))
                       ELSE before
         IN IF corp[web] = {}
            THEN FAdd(linked, FDivInt(old[web], Len(corp)))
            ELSE linked

(* lines 184-199: the new rank of page pg from the ranks old *)
NewRank(corp, old, pg, rf, d) ==
    LET inbound  == Addition(corp, old, pg, Len(corp))
        addition == IF FIsZero(inbound) THEN IntDiv(1, Len(corp)) ELSE inbound
    IN FAdd(rf, FMul(d, addition))

(* a test that compares each new rank, not its change, with 0.001 *)
ConvergedIgnoringOld(new, old) ==
    \A p \in DOMAIN new : FLess(new[p], FLit(1, 1000))

(* any(...) in place of all(...) *)
ConvergedAnyPage(new, old) ==
    \E p \in DOMAIN new : FLess(FAbsDiff(new[p], old[p]), FLit(1, 1000))

(* line 202 *)
Converged(new, old) ==
    \A p \in DOMAIN new : FLess(FAbsDiff(new[p], old[p]), FLit(1, 1000))

(* old_pagerank = new_pagerank without the copy: both names, one object *)
DictAlias(h, old, new) == [heap |-> h, old |-> new]

(* line 210: old_pagerank = new_pagerank.copy() -- a new object takes the  *)
(* ranks of new_pagerank; the object old_pagerank named is dropped         *)
DictCopy(h, old, new) ==
    LET fresh == CHOOSE id \in ObjIds : id # old /\ id # new
    IN [heap |-> [h EXCEPT ![fresh] = h[new], ![old] = None], old |-> fresh]

IterDampings == {FZero, FLit(1, 2), DAMPING, FOne}
WideDampings == {FLit(9, 10)}

IterStart(corpora, dampings) ==
    /\ pc = "iterate_pagerank"
    /\ corpus \in corpora
    /\ damping_factor \in dampings
    /\ page = 0
    /\ NoSample /\ NoIter
    /\ result = None /\ error = None

InitIter == IterStart(Corpora(MaxPages, MaxEdges), IterDampings)

InitIterWide == IterStart(Corpora(WidePages, MaxEdges), WideDampings)

(* lines 171-177 on an empty corpus: both dicts are empty and              *)
(* (1 - damping_factor) / len(corpus) raises ZeroDivisionError             *)
IterBeginEmpty ==
    /\ pc = "iterate_pagerank"
    /\ Len(corpus) = 0
    /\ error' = "ZeroDivisionError"
    /\ pc' = "raised"
    /\ UNCHANGED <<corpus, damping_factor, page, result>>
    /\ UNCHANGED sampleVars /\ UNCHANGED iterVars

(* an iterate_pagerank that would refuse a damping of 1 or more *)
IterBeginChecked ==
    /\ pc = "iterate_pagerank"
    /\ Len(corpus) >= 1
    /\ IF FLess(damping_factor, FOne)
       THEN /\ heap' = << [key \in Pages(corpus) |-> IntDiv(1, Len(corpus))],
                          [key \in Pages(corpus) |-> FZero],
                          None >>
            /\ old_pagerank' = 1
            /\ new_pagerank' = 2
            /\ random_factor' = FDivInt(FSub(FOne, damping_factor), Len(corpus))
            /\ cursor' = 1
            /\ rounds' = 0
            /\ pc' = "for"
            /\ error' = error
       ELSE /\ error' = "ValueError"
            /\ pc' = "raised"
            /\ UNCHANGED iterVars
    /\ UNCHANGED <<corpus, damping_factor, page, result>>
    /\ UNCHANGED sampleVars

(* lines 171-183 *)
IterBegin ==
    /\ pc = "iterate_pagerank"
    /\ Len(corpus) >= 1
    /\ heap' = << [key \in Pages(corpus) |-> IntDiv(1, Len(corpus))],
                  [key \in Pages(corpus) |-> FZero],
                  None >>
    /\ old_pagerank' = 1
    /\ new_pagerank' = 2
    /\ random_factor' = FDivInt(FSub(FOne, damping_factor), Len(corpus))
    /\ cursor' = 1
    /\ rounds' = 0
    /\ pc' = "for"
    /\ UNCHANGED <<corpus, damping_factor, page, result, error>>
    /\ UNCHANGED sampleVars

(* lines 183-199, one page of the for loop *)
IterPage ==
    /\ pc = "for"
    /\ heap' = [heap EXCEPT ![new_pagerank][cursor] =
                   NewRank(corpus, heap[old_pagerank], cursor, random_factor, damping_factor)]
    /\ IF cursor < Len(corpus)
       THEN cursor' = cursor + 1 /\ pc' = "for"
       ELSE cursor' = cursor /\ pc' = "check"
    /\ UNCHANGED <<corpus, damping_factor, page, result, error>>
    /\ UNCHANGED <<old_pagerank, new_pagerank, random_factor, rounds>>
    /\ UNCHANGED sampleVars

(* lines 202-206 and 212: converged, return new_pagerank *)
IterReturn ==
    /\ pc = "check"
    /\ Converged(heap[new_pagerank], heap[old_pagerank])
    /\ result' = heap[new_pagerank]
    /\ pc' = "done"
    /\ UNCHANGED <<corpus, damping_factor, page, error>>
    /\ UNCHANGED sampleVars /\ UNCHANGED iterVars

(* lines 202-210: not converged, go round again from a copy *)
IterAgain ==
    /\ pc = "check"
    /\ ~Converged(heap[new_pagerank], heap[old_pagerank])
    /\ rounds < MaxRounds
    /\ LET c == DictCopy(heap, old_pagerank, new_pagerank)
       IN heap' = c.heap /\ old_pagerank' = c.old
    /\ rounds' = rounds + 1
    /\ cursor' = 1
    /\ pc' = "for"
    /\ UNCHANGED <<corpus, damping_factor, page, result, error>>
    /\ UNCHANGED <<new_pagerank, random_factor>>
    /\ UNCHANGED sampleVars

NextIter ==
    \/ IterBeginEmpty
    \/ IterBegin
    \/ IterPage
    \/ IterReturn
    \/ IterAgain

SpecIter == InitIter /\ [][NextIter]_vars

(* ENABLED <<NextIter>>_vars, from the guards of the five actions *)
CanStep ==
    \/ pc \in {"iterate_pagerank", "for"}
    \/ /\ pc = "check"
       /\ \/ Converged(heap[new_pagerank], heap[old_pagerank])
          \/ rounds < MaxRounds

(* the interpreter runs the one thread until it returns or raises: weak    *)
(* fairness of NextIter, WF_vars(NextIter), with its ENABLED written out   *)
Scheduled == []<>(~CanStep) \/ []<><<NextIter>>_vars

FairSpecIter == SpecIter /\ Scheduled

SpecIterWide == InitIterWide /\ [][NextIter]_vars

---------------------------------------------------------------------------
(* What the claims are stated with. *)

(* sum(dist.values()) in floating point, in key order *)
RECURSIVE SumTo(_, _)
SumTo(dist, i) == IF i = 0 THEN FZero ELSE FAdd(SumTo(dist, i - 1), dist[i])

FSum(dist) == SumTo(dist, Len(corpus))

(* abs(x - 1) < 1e-6; 0.001 / 1000 is the float 1e-6 *)
NearOne(x) == FLess(FAbsDiff(x, FOne), FDivInt(FLit(1, 1000), 1000))

(* C1: the distribution transition_model returns has exactly the corpus's  *)
(* pages as keys and sums to 1 (to within 1e-6), for every current page,   *)
(* a page without out-links included.  (No value is negative: the floats   *)
(* of the model carry no sign.)                                            *)
C1_TransitionIsDistribution ==
    pc = "done" =>
        /\ DOMAIN result = Pages(corpus)
        /\ NearOne(FSum(result))

(* expected_output of test_transition_model *)
expected_output == <<FLit(5, 100), FLit(475, 1000), FLit(475, 1000)>>

(* C2: transition_model returns (1-d)/N for every page, plus d/|corpus[c]| *)
(* exactly for the pages c links to, and for corpus_ex, page 1 and d =     *)
(* 0.85 the result is {1: 0.05, 2: 0.475, 3: 0.475}.                       *)
C2_TransitionValues ==
    pc = "done" =>
        LET base == FDivInt(FSub(FOne, damping_factor), Len(corpus))
            link == FDivInt(damping_factor, Cardinality(corpus[page]))
        IN /\ \A p \in Pages(corpus) :
                  result[p] = IF p \in corpus[page] THEN FAdd(base, link) ELSE base
           /\ (corpus = corpus_ex /\ page = 1 /\ damping_factor = DAMPING)
                  => result = expected_output

(* the values of dist add up to exactly 1, as rational numbers *)
RECURSIVE MinExp(_, _)
MinExp(dist, i) ==
    IF i = 0 THEN 0
    ELSE LET rest == MinExp(dist, i - 1)
         IN IF ~FIsZero(dist[i]) /\ dist[i].e < rest THEN dist[i].e ELSE rest

RECURSIVE ExactSumTo(_, _, _)
ExactSumTo(dist, i, emin) ==
    IF i = 0 THEN BigZero
    ELSE BigAdd(ExactSumTo(dist, i - 1, emin),
                IF FIsZero(dist[i]) THEN BigZero ELSE BigShl(dist[i].m, dist[i].e - emin))

ExactSumIsOne(dist) ==
    LET emin == MinExp(dist, Len(corpus))
    IN ExactSumTo(dist, Len(corpus), emin) = BigShl(BigOfInt(1), 0 - emin)

RECURSIVE CountSum(_, _)
CountSum(smp, i) == IF i = 0 THEN 0 ELSE Count(smp, i) + CountSum(smp, i - 1)

SampleCase == Len(corpus) >= 1 /\ FLess(damping_factor, FOne) /\ n >= 1

(* everything C3 says but the sum of the returned values *)
SampleTally ==
    /\ pc # "raised"
    /\ Len(sample) <= n
    /\ \A i \in 1..Len(sample) : sample[i] \in Pages(corpus)
    /\ pc \in {"tally", "done"} => Len(sample) = n
    /\ pc = "done" =>
          /\ DOMAIN result = Pages(corpus)
          /\ \A p \in Pages(corpus) : result[p] = IntDiv(Count(sample, p), n)
          /\ CountSum(sample, Len(corpus)) = n

(* C3 as stated: for a non-empty graph, damping in [0,1) and n >= 1,       *)
(* sample_pagerank draws exactly n samples, all pages of the graph,        *)
(* returns count/n for every page, the counts sum to n, and the returned   *)
(* values sum to exactly 1.                                                *)
C3_SampleSumsExactlyOne ==
    SampleCase =>
        /\ SampleTally
        /\ pc = "done" => ExactSumIsOne(result)

(* C3 as amended: the same, with the returned floats summing to 1 to       *)
(* within 1e-6 instead of exactly.                                         *)
C3_SampleIsDistribution ==
    SampleCase =>
        /\ SampleTally
        /\ pc = "done" => NearOne(FSum(result))

C3_Witness ==
    /\ SampleCase /\ pc = "done" /\ n = 3
    /\ Count(sample, 1) = 1 /\ Count(sample, 2) = 2
    /\ tm_calls = 2

(* C4 as stated: sample_pagerank fails, before any sampling and without    *)
(* returning a distribution, whenever n < 1 or the graph is empty (any     *)
(* exception is taken for the InvalidArgument of the statement).           *)
C4_SampleRejectsBadArguments ==
    (n < 1 \/ Len(corpus) = 0) =>
        /\ pc \in {"sample_pagerank", "raised"}
        /\ sample = <<>> /\ result = None

OneHot(dist, p) ==
    /\ DOMAIN dist = Pages(corpus)
    /\ \A q \in Pages(corpus) : dist[q] = IF q = p THEN FOne ELSE FZero

(* C4 as amended: on an empty graph sample_pagerank fails, before any      *)
(* sampling and without returning a distribution, with the IndexError of   *)
(* random.choice; n < 1 is not rejected: on a non-empty graph the call     *)
(* draws one page, takes no transition step and returns the one-hot        *)
(* distribution of that page.                                              *)
C4_SampleBadArguments ==
    /\ Len(corpus) = 0 =>
          /\ pc \in {"sample_pagerank", "raised"}
          /\ pc = "raised" => error = "IndexError"
          /\ sample = <<>> /\ result = None
    /\ (Len(corpus) >= 1 /\ n < 1) =>
          /\ pc \in {"sample_pagerank", "tally", "done"}
          /\ error = None /\ tm_calls = 0
          /\ pc # "sample_pagerank" => Len(sample) = 1
          /\ pc = "done" => OneHot(result, sample[1])

C4_Witness ==
    Len(corpus) = 2 /\ n = 0 /\ pc = "done" /\ sample = <<2>>

(* C9: with n = 1 on a non-empty graph no transition step is taken and the *)
(* result is one-hot on the first (and only) page drawn.                   *)
C9_SingleSampleOneHot ==
    (n = 1 /\ Len(corpus) >= 1) =>
        /\ tm_calls = 0
        /\ pc \in {"sample_pagerank", "tally", "done"}
        /\ pc = "done" => Len(sample) = 1 /\ OneHot(result, sample[1])

C9_Witness ==
    n = 1 /\ Len(corpus) = 2 /\ pc = "done" /\ result = <<FZero, FOne>>

HasDangling(corp) == \E w \in Pages(corp) : corp[w] = {}

NoInLinks(corp, p) == \A w \in Pages(corp) : p \notin corp[w]

(* the graphs on which line 197 replaces a zero addition by 1/N *)
Substitutes(corp) == ~HasDangling(corp) /\ \E p \in Pages(corp) : NoInLinks(corp, p)

Damped == FLess(damping_factor, FOne)

InLoop == pc \in {"for", "check"}

(* C5 as stated: iterate_pagerank fails, before any update round, whenever *)
(* the graph is empty or damping >= 1, and never enters the update loop    *)
(* with damping >= 1 (any exception is taken for the InvalidArgument of    *)
(* the statement).                                                         *)
C5_IterateRejectsBadArguments ==
    (Len(corpus) = 0 \/ ~Damped) =>
        /\ pc \in {"iterate_pagerank", "raised"}
        /\ result = None

(* C5 as amended: on an empty graph iterate_pagerank fails, before any     *)
(* update round, with the ZeroDivisionError of (1 - damping_factor) /      *)
(* len(corpus); a damping >= 1 is not rejected: on a non-empty graph no    *)
(* exception is raised and the update loop is entered whatever the         *)
(* damping.                                                                *)
C5_IterateBadArguments ==
    /\ Len(corpus) = 0 =>
          /\ pc \in {"iterate_pagerank", "raised"}
          /\ pc = "raised" => error = "ZeroDivisionError"
          /\ heap = <<>> /\ rounds = 0 /\ result = None
    /\ Len(corpus) >= 1 =>
          /\ pc \in {"iterate_pagerank", "for", "check", "done"}
          /\ error = None

C5_Witness ==
    ~Damped /\ pc = "for" /\ rounds >= 2 /\ error = None

(* C6: for every graph of N >= 1 pages and every damping in [0,1) the      *)
(* update loop reaches a round in which every page changes by less than    *)
(* 0.001, and returns.                                                     *)
C6_IterateTerminates ==
    (Len(corpus) >= 1 /\ Damped) ~> (pc = "done")

C6_Witness ==
    /\ pc = "done" /\ Damped /\ rounds >= 10
    /\ Substitutes(corpus)
    /\ Converged(heap[new_pagerank], heap[old_pagerank])

(* C7: for every non-empty graph and damping in [0,1) the distribution     *)
(* iterate_pagerank returns has exactly the graph's pages as keys and sums *)
(* to 1 (to within 1e-6), also when line 197 substitutes 1/N.              *)
C7_IterateIsDistribution ==
    (pc = "done" /\ Damped) =>
        /\ DOMAIN result = Pages(corpus)
        /\ NearOne(FSum(result))

(* the ranks one more update round makes of dist *)
OneMoreRound(dist) ==
    [p \in Pages(corpus) |-> NewRank(corpus, dist, p, random_factor, damping_factor)]

CloseTo(a, b) == \A p \in Pages(corpus) : FLess(FAbsDiff(a[p], b[p]), FLit(1, 1000))

(* C8 as stated: one more update round applied to the distribution         *)
(* iterate_pagerank returns changes no page's rank by 0.001 or more.       *)
C8_OneMoreRoundIsClose ==
    (pc = "done" /\ Damped) => CloseTo(OneMoreRound(result), result)

(* C8 as amended: the distribution iterate_pagerank returns is one update  *)
(* round applied to the ranks of the round before, from which it differs   *)
(* by less than 0.001 on every page.                                       *)
C8_LastRoundIsClose ==
    (pc = "done" /\ Damped) =>
        /\ result = OneMoreRound(heap[old_pagerank])
        /\ CloseTo(result, heap[old_pagerank])

C8_Witness ==
    /\ pc = "done" /\ Damped /\ ~Substitutes(corpus)
    /\ ~CloseTo(OneMoreRound(result), result)
    /\ CloseTo(result, heap[old_pagerank])

(* C10: in every round each new rank is computed from the ranks of the     *)
(* round before only: the dict old_pagerank names is never the dict being  *)
(* written and does not change during a round, the ranks written so far    *)
(* are those one update of it gives, and after a round that has not        *)
(* converged old_pagerank holds all the new ranks of that round.           *)
WrittenFromOld ==
    \A p \in Pages(corpus) :
        (pc = "check" \/ p < cursor) =>
            heap[new_pagerank][p] =
                NewRank(corpus, heap[old_pagerank], p, random_factor, damping_factor)

C10_SynchronousUpdate ==
    /\ [](InLoop => old_pagerank # new_pagerank /\ WrittenFromOld)
    /\ [][pc = "for" => /\ old_pagerank' = old_pagerank
                        /\ heap'[old_pagerank] = heap[old_pagerank]]_vars
    /\ [][(pc = "check" /\ pc' = "for") =>
              /\ heap'[old_pagerank'] = heap[new_pagerank]
              /\ heap'[new_pagerank'] = heap[new_pagerank]]_vars

C10_Witness ==
    /\ pc = "for" /\ rounds >= 1 /\ cursor = 3
    /\ heap[new_pagerank][1] # heap[old_pagerank][1]
    /\ heap[new_pagerank][2] # heap[old_pagerank][2]

====
